---- MODULE Spec2Model ----
(***************************************************************************)
(* The two LZ dictionary buffers of src/src/decode/lzbuffer.rs,            *)
(* LzAccumBuffer and LzCircularBuffer, as one state machine.  A behaviour  *)
(* is one buffer from from_stream to finish / into_output: the variant and *)
(* the construction parameters are chosen in Init, every public method is  *)
(* one action.  Vec<u8> is a sequence (index i of the code is i + 1 here), *)
(* the sink W is the sequence of bytes written to it plus a count of the   *)
(* flush calls.  usize arithmetic is far from overflow within the bounds.  *)
(* Vec2D of src/src/util/vec2d.rs is a second, separate state machine      *)
(* (Vec2DSpec) over the variables vec and idx.                             *)
(***************************************************************************)
EXTENDS Integers, Sequences, FiniteSets, TLC

\* ---------------------------------------------------------------- bounds
MaxDict == 2
MaxMem == 2
MaxBuf0 == 1
MaxLzLen == 2
MaxDist == 2
MaxEmit == 4
MaxRows == 2
MaxCols == 2

\* u8, cut down to two values: the buffers only move bytes around and never
\* look at one, so two values tell any two positions apart.
Byte == {0, 1}
NoByte == 0 - 1

\* The memory limits tried: the small ones, which the appends run into, and
\* one that MaxEmit bytes never reach.
MemLimits == (0..MaxMem) \cup {MaxEmit}

\* The Vec<u8> a caller may hand to from_stream: empty, or still holding bytes
\* of an earlier use (their values are never inspected; all are 1 here).
Backings == {[i \in 1..n |-> 1] : n \in 0..MaxBuf0}

VARIABLES
  variant,    \* "accum" (LzAccumBuffer) or "circ" (LzCircularBuffer)
  dict_size,  \* LzCircularBuffer.dict_size
  memlimit,   \* .memlimit
  buf,        \* .buf, the borrowed Vec<u8>
  len,        \* .len
  cursor,     \* LzCircularBuffer.cursor
  stream,     \* bytes the sink W has received
  flushes,    \* number of W::flush calls made
  phase,      \* "live", or how the buffer ended: "finished", "output", "panic"
  ret,        \* the last call: its name, arguments, result and the bytes it emitted
  buf0,       \* history: the Vec<u8> handed to from_stream
  emitted,    \* history: every byte the buffer accepted, in order
  ref,        \* the unbounded-array reference model
  refOk,      \* history: every call so far was one the reference model covers
  ioFailed,   \* history: a sink write or flush has failed
  written,    \* history: the ring indices an append of this buffer has stored to
  vec,        \* a Vec2D<T> of src/src/util/vec2d.rs: data, rows, cols
  idx,        \* the last call on vec: its name, arguments and result
  twin        \* the same calls made on a buffer built over an empty region

vars == <<variant, dict_size, memlimit, buf, len, cursor, stream, flushes,
          phase, ret, buf0, emitted, ref, refOk, ioFailed, written, vec, idx, twin>>

\* The fields of the buffer struct together with its sink, at the start of a
\* call.  written and unwr are bookkeeping: the indices stored to so far, and
\* whether this call has read an index outside them.
Self ==
  [buf |-> buf, len |-> len, cursor |-> cursor, stream |-> stream, flushes |-> flushes,
   written |-> written, unwr |-> FALSE]

\* What a call leaves behind: the struct, the call's result, the byte it
\* returned (queries) and the bytes it appended to the output.
Result(self, res, val, out) ==
  [buf |-> self.buf, len |-> self.len, cursor |-> self.cursor, stream |-> self.stream,
   flushes |-> self.flushes, written |-> self.written, unwr |-> self.unwr,
   res |-> res, val |-> val, out |-> out]

Strip(r) ==
  [buf |-> r.buf, len |-> r.len, cursor |-> r.cursor, stream |-> r.stream, flushes |-> r.flushes,
   written |-> r.written, unwr |-> r.unwr]

\* ------------------------------------------------------------------ sink
\* io::Write::write_all: k < 0 is a sink that takes everything; k >= 0 is a
\* sink that fails after taking k bytes.  Nothing to write never fails.
write_all(s, data, k) ==
  IF k < 0 \/ k >= Len(data)
  THEN [ok |-> TRUE, stream |-> s \o data]
  ELSE [ok |-> FALSE, stream |-> s \o SubSeq(data, 1, k)]

\* The ways a write of `data` can go on this sink, and the ways a flush can
\* (TRUE: it succeeds).  The sink W is any io::Write: each write may succeed or
\* fail after any prefix.  A behaviour follows the sink up to its first failure
\* and lets the caller go on calling after it; the sink then takes everything.
WriteOutcomes(data) == IF ioFailed THEN {0 - 1} ELSE (0 - 1)..(Len(data) - 1)
\* The same for the flush of a wrap: the ring written then is at most one
\* byte longer than it is now (an outcome past its end is a success).
WrapOutcomes == IF ioFailed THEN {0 - 1} ELSE (0 - 1)..(IF Len(buf) > cursor THEN Len(buf) - 1 ELSE cursor)
FlushOutcomes == IF ioFailed THEN {TRUE} ELSE BOOLEAN

\* ------------------------------------------------------ LzAccumBuffer
accum_last_or(self, lit) ==
  LET buf_len == Len(self.buf) IN
  IF buf_len = 0
  THEN Result(self, "Ok", lit, <<>>)
  ELSE Result(self, "Ok", self.buf[(buf_len - 1) + 1], <<>>)

accum_last_n(self, dist) ==
  LET buf_len == Len(self.buf) IN
  IF dist > buf_len
  THEN Result(self, "DistErr", NoByte, <<>>)
  ELSE LET index == buf_len - dist IN
       IF index >= buf_len
       THEN Result(self, "Panic", NoByte, <<>>)
       ELSE Result(self, "Ok", self.buf[index + 1], <<>>)

\* accum_append_literal with the limit test off by one (>= for >).
accum_append_literal_off_by_one(self, lit) ==
  LET new_len == self.len + 1 IN
  IF new_len >= memlimit
  THEN Result(self, "MemErr", NoByte, <<>>)
  ELSE Result([self EXCEPT !.buf = Append(@, lit), !.len = new_len], "Ok", NoByte, <<lit>>)

accum_append_literal(self, lit) ==
  LET new_len == self.len + 1 IN
  IF new_len > memlimit
  THEN Result(self, "MemErr", NoByte, <<>>)
  ELSE Result([self EXCEPT !.buf = Append(@, lit), !.len = new_len], "Ok", NoByte, <<lit>>)

\* The copy loop of append_lz: n more iterations reading at offset.
RECURSIVE accum_copy(_, _, _, _)
accum_copy(self, offset, n, out) ==
  IF n = 0
  THEN Result(self, "Ok", NoByte, out)
  ELSE IF offset >= Len(self.buf)
       THEN Result(self, "Panic", NoByte, out)
       ELSE LET x == self.buf[offset + 1] IN
            accum_copy([self EXCEPT !.buf = Append(@, x)], offset + 1, n - 1, Append(out, x))

accum_append_lz(self, n, dist) ==
  LET buf_len == Len(self.buf) IN
  IF dist > buf_len
  THEN Result(self, "DistErr", NoByte, <<>>)
  ELSE LET r == accum_copy(self, buf_len - dist, n, <<>>) IN
       IF r.res = "Ok" THEN [r EXCEPT !.len = @ + n] ELSE r

accum_reset(self, k) ==
  LET w == write_all(self.stream, self.buf, k) IN
  IF ~w.ok
  THEN Result([self EXCEPT !.stream = w.stream], "IoErr", NoByte, <<>>)
  ELSE Result([self EXCEPT !.stream = w.stream, !.buf = <<>>, !.len = 0], "Ok", NoByte, <<>>)

accum_finish(self, k, f) ==
  LET w == write_all(self.stream, self.buf, k) IN
  IF ~w.ok
  THEN Result([self EXCEPT !.stream = w.stream], "IoErr", NoByte, <<>>)
  ELSE LET s == [self EXCEPT !.stream = w.stream, !.flushes = @ + 1] IN
       Result(s, IF f THEN "Ok" ELSE "IoErr", NoByte, <<>>)

accum_into_output(self) == Result(self, "Ok", NoByte, <<>>)

\* --------------------------------------------------- LzCircularBuffer
get(self, index) ==
  IF index < Len(self.buf) THEN self.buf[index + 1] ELSE 0

\* Bookkeeping for a get(index) whose byte the caller hands on.
read(self, index) == [self EXCEPT !.unwr = @ \/ index \notin self.written]

\* set with the limit test off by one (< for <=).
set_off_by_one(self, index, value) ==
  LET new_len == index + 1 IN
  IF Len(self.buf) < new_len
  THEN IF new_len < memlimit
       THEN LET grown == [i \in 1..new_len |-> IF i <= Len(self.buf) THEN self.buf[i] ELSE 0] IN
            [ok |-> TRUE, self |-> [self EXCEPT !.buf = [grown EXCEPT ![index + 1] = value],
                                                 !.written = @ \cup {index}]]
       ELSE [ok |-> FALSE, self |-> self]
  ELSE [ok |-> TRUE, self |-> [self EXCEPT !.buf[index + 1] = value, !.written = @ \cup {index}]]

\* set that grows the region without looking at memlimit.
set_unchecked(self, index, value) ==
  LET new_len == index + 1 IN
  IF Len(self.buf) < new_len
  THEN LET grown == [i \in 1..new_len |-> IF i <= Len(self.buf) THEN self.buf[i] ELSE 0] IN
       [ok |-> TRUE, self |-> [self EXCEPT !.buf = [grown EXCEPT ![index + 1] = value],
                                            !.written = @ \cup {index}]]
  ELSE [ok |-> TRUE, self |-> [self EXCEPT !.buf[index + 1] = value, !.written = @ \cup {index}]]

\* Vec::resize(new_len, 0) followed by buf[index] = value.
set(self, index, value) ==
  LET new_len == index + 1 IN
  IF Len(self.buf) < new_len
  THEN IF new_len <= memlimit
       THEN LET grown == [i \in 1..new_len |-> IF i <= Len(self.buf) THEN self.buf[i] ELSE 0] IN
            [ok |-> TRUE, self |-> [self EXCEPT !.buf = [grown EXCEPT ![index + 1] = value],
                                                 !.written = @ \cup {index}]]
       ELSE [ok |-> FALSE, self |-> self]
  ELSE [ok |-> TRUE, self |-> [self EXCEPT !.buf[index + 1] = value, !.written = @ \cup {index}]]

circ_last_or(self, lit) ==
  IF self.len = 0
  THEN Result(self, "Ok", lit, <<>>)
  ELSE IF dict_size = 0
       THEN Result(self, "Panic", NoByte, <<>>)
       ELSE LET index == (dict_size + self.cursor - 1) % dict_size IN
            Result(read(self, index), "Ok", get(self, index), <<>>)

\* circ_last_n that subtracts before adding dict_size: cursor - dist
\* underflows (a panic) whenever dist > cursor.
circ_last_n_underflow(self, dist) ==
  IF dist > dict_size
  THEN Result(self, "DistErr", NoByte, <<>>)
  ELSE IF dist > self.len
       THEN Result(self, "DistErr", NoByte, <<>>)
       ELSE IF dict_size = 0 \/ self.cursor < dist
            THEN Result(self, "Panic", NoByte, <<>>)
            ELSE Result(self, "Ok", get(self, (self.cursor - dist) % dict_size), <<>>)

circ_last_n(self, dist) ==
  IF dist > dict_size
  THEN Result(self, "DistErr", NoByte, <<>>)
  ELSE IF dist > self.len
       THEN Result(self, "DistErr", NoByte, <<>>)
       ELSE IF dict_size = 0
            THEN Result(self, "Panic", NoByte, <<>>)
            ELSE LET offset == (dict_size + self.cursor - dist) % dict_size IN
                 Result(read(self, offset), "Ok", get(self, offset), <<>>)

\* circ_append_literal that flushes at the wrap but leaves cursor at dict_size.
circ_append_literal_no_rewind(self, lit, k) ==
  LET s1 == set(self, self.cursor, lit) IN
  IF ~s1.ok
  THEN Result(self, "MemErr", NoByte, <<>>)
  ELSE LET s2 == [s1.self EXCEPT !.cursor = @ + 1, !.len = @ + 1] IN
       IF s2.cursor = dict_size
       THEN LET w == write_all(s2.stream, s2.buf, k) IN
            IF ~w.ok
            THEN Result([s2 EXCEPT !.stream = w.stream], "IoErr", NoByte, <<lit>>)
            ELSE Result([s2 EXCEPT !.stream = w.stream], "Ok", NoByte, <<lit>>)
       ELSE Result(s2, "Ok", NoByte, <<lit>>)

\* circ_append_literal that wraps one append late (> for ==).
circ_append_literal_late_wrap(self, lit, k) ==
  LET s1 == set(self, self.cursor, lit) IN
  IF ~s1.ok
  THEN Result(self, "MemErr", NoByte, <<>>)
  ELSE LET s2 == [s1.self EXCEPT !.cursor = @ + 1, !.len = @ + 1] IN
       IF s2.cursor > dict_size
       THEN LET w == write_all(s2.stream, s2.buf, k) IN
            IF ~w.ok
            THEN Result([s2 EXCEPT !.stream = w.stream], "IoErr", NoByte, <<lit>>)
            ELSE Result([s2 EXCEPT !.stream = w.stream, !.cursor = 0], "Ok", NoByte, <<lit>>)
       ELSE Result(s2, "Ok", NoByte, <<lit>>)

\* k is how the write of the flush goes, should this append wrap the ring.
circ_append_literal(self, lit, k) ==
  LET s1 == set(self, self.cursor, lit) IN
  IF ~s1.ok
  THEN Result(self, "MemErr", NoByte, <<>>)
  ELSE LET s2 == [s1.self EXCEPT !.cursor = @ + 1, !.len = @ + 1] IN
       IF s2.cursor = dict_size
       THEN LET w == write_all(s2.stream, s2.buf, k) IN
            IF ~w.ok
            THEN Result([s2 EXCEPT !.stream = w.stream], "IoErr", NoByte, <<lit>>)
            ELSE Result([s2 EXCEPT !.stream = w.stream, !.cursor = 0], "Ok", NoByte, <<lit>>)
       ELSE Result(s2, "Ok", NoByte, <<lit>>)

\* circ_copy whose read offset runs past dict_size instead of wrapping to 0.
RECURSIVE circ_copy_no_wrap(_, _, _, _, _, _, _)
circ_copy_no_wrap(self, offset, i, n, j, k, out) ==
  IF i > n
  THEN Result(self, "Ok", NoByte, out)
  ELSE LET x == get(self, offset)
           r == circ_append_literal(self, x, IF i = j THEN k ELSE 0 - 1)
       IN IF r.res # "Ok"
          THEN Result(Strip(r), r.res, NoByte, out \o r.out)
          ELSE circ_copy_no_wrap(Strip(r), offset + 1, i + 1, n, j, k, out \o r.out)

\* The copy loop of append_lz, at iteration i of n, reading at offset; the
\* flush of iteration j goes as k says, every other flush succeeds.
RECURSIVE circ_copy(_, _, _, _, _, _, _)
circ_copy(self, offset, i, n, j, k, out) ==
  IF i > n
  THEN Result(self, "Ok", NoByte, out)
  ELSE LET x == get(self, offset)
           r == circ_append_literal(read(self, offset), x, IF i = j THEN k ELSE 0 - 1)
       IN IF r.res # "Ok"
          THEN Result(Strip(r), r.res, NoByte, out \o r.out)
          ELSE circ_copy(Strip(r), IF offset + 1 = dict_size THEN 0 ELSE offset + 1,
                         i + 1, n, j, k, out \o r.out)

\* circ_append_lz without the test of dist against dict_size.
circ_append_lz_no_window_check(self, n, dist, j, k) ==
  IF dist > self.len
  THEN Result(self, "DistErr", NoByte, <<>>)
  ELSE IF dict_size = 0
       THEN Result(self, "Panic", NoByte, <<>>)
       ELSE circ_copy(self, (dict_size + self.cursor - dist) % dict_size, 1, n, j, k, <<>>)

circ_append_lz(self, n, dist, j, k) ==
  IF dist > dict_size
  THEN Result(self, "DistErr", NoByte, <<>>)
  ELSE IF dist > self.len
       THEN Result(self, "DistErr", NoByte, <<>>)
       ELSE IF dict_size = 0
            THEN Result(self, "Panic", NoByte, <<>>)
            ELSE circ_copy(self, (dict_size + self.cursor - dist) % dict_size, 1, n, j, k, <<>>)

\* circ_finish that writes the whole ring instead of its prefix [0, cursor).
circ_finish_whole_ring(self, k, f) ==
  IF self.cursor > 0
  THEN LET w == write_all(self.stream, self.buf, k) IN
       IF ~w.ok
       THEN Result([self EXCEPT !.stream = w.stream], "IoErr", NoByte, <<>>)
       ELSE LET s == [self EXCEPT !.stream = w.stream, !.flushes = @ + 1] IN
            Result(s, IF f THEN "Ok" ELSE "IoErr", NoByte, <<>>)
  ELSE Result(self, "Ok", NoByte, <<>>)

circ_finish(self, k, f) ==
  IF self.cursor > 0
  THEN IF self.cursor > Len(self.buf)
       THEN Result(self, "Panic", NoByte, <<>>)
       ELSE LET w == write_all(self.stream, SubSeq(self.buf, 1, self.cursor), k) IN
            IF ~w.ok
            THEN Result([self EXCEPT !.stream = w.stream], "IoErr", NoByte, <<>>)
            ELSE LET s == [self EXCEPT !.stream = w.stream, !.flushes = @ + 1] IN
                 Result(s, IF f THEN "Ok" ELSE "IoErr", NoByte, <<>>)
  ELSE Result(self, "Ok", NoByte, <<>>)

\* into_output that writes the pending prefix of the ring, as finish does.
circ_into_output_writing(self) ==
  Result([self EXCEPT !.stream = @ \o SubSeq(self.buf, 1, self.cursor)], "Ok", NoByte, <<>>)

circ_into_output(self) == Result(self, "Ok", NoByte, <<>>)

\* ------------------------------------------------------------ reference
\* The plain array: a back-reference copies n bytes one at a time, each from
\* dist positions before the current end.
RECURSIVE RefLz(_, _, _)
RefLz(a, n, dist) ==
  IF n = 0 THEN a ELSE RefLz(Append(a, a[Len(a) - dist + 1]), n - 1, dist)

\* ----------------------------------------------------------------- Vec2D
\* util/vec2d.rs.  data: Box<[T]> is a sequence; T is cut down to Byte.
Vec2D_init(data, size) ==
  LET data_len == size[1] * size[2] IN
  [data |-> [i \in 1..data_len |-> data], rows |-> size[1], cols |-> size[2]]

Vec2D_fill(self, value) == [self EXCEPT !.data = [i \in 1..Len(self.data) |-> value]]

\* The row slice &data[start..end] (ok), or the panic of a row out of bounds.
\* A range that ends past data panics as well.
Slice(self, start, end) == [ok |-> end <= Len(self.data), start |-> start, end |-> end]

\* index whose row slice runs to the end of data (&self.data[start_row..]).
Vec2D_index_open_ended(self, row) ==
  IF row < self.rows
  THEN LET start_row == row * self.cols IN Slice(self, start_row, Len(self.data))
  ELSE [ok |-> FALSE, start |-> 0, end |-> 0]

Vec2D_index(self, row) ==
  IF row < self.rows
  THEN LET start_row == row * self.cols IN Slice(self, start_row, start_row + self.cols)
  ELSE [ok |-> FALSE, start |-> 0, end |-> 0]

Vec2D_index_mut(self, row) ==
  IF row < self.rows
  THEN LET start_row == row * self.cols IN Slice(self, start_row, start_row + self.cols)
  ELSE [ok |-> FALSE, start |-> 0, end |-> 0]

\* slice[col]: the flat position it addresses, or -1 for the panic of an
\* index outside the slice.
SliceAt(s, col) ==
  IF s.ok /\ col < s.end - s.start THEN s.start + col ELSE 0 - 1

\* A call on vec: pos is the flat position it addressed, val the value it
\* read or stored.
Access(op, row, col, res, pos, val) ==
  [op |-> op, row |-> row, col |-> col, res |-> res, pos |-> pos, val |-> val]

\* ----------------------------------------------------------------- steps
\* The twin: a second buffer of the same variant, dict_size and memlimit,
\* built over an empty region with a sink of its own, that is handed every
\* call this buffer is handed (and whose sink is told to fail where this
\* one's is).  It is followed up to the first call whose result, or the sink
\* content after which, differs between the two.
TwinSelf ==
  [buf |-> twin.buf, len |-> twin.len, cursor |-> twin.cursor, stream |-> twin.stream,
   flushes |-> twin.flushes, written |-> twin.written, unwr |-> FALSE]

\* Nothing is kept of a twin that has differed.
NoTwin ==
  [buf |-> <<>>, len |-> 0, cursor |-> 0, stream |-> <<>>, flushes |-> 0,
   written |-> {}, unwr |-> FALSE]

Twin(t, same) ==
  [buf |-> t.buf, len |-> t.len, cursor |-> t.cursor, stream |-> t.stream,
   flushes |-> t.flushes, written |-> t.written, res |-> t.res, val |-> t.val,
   same |-> same]

\* The variables after a call with outcome o, and outcome t on the twin.
Apply(op, x, y, ph, o, t) ==
  /\ buf' = o.buf
  /\ len' = o.len
  /\ cursor' = o.cursor
  /\ stream' = o.stream
  /\ flushes' = o.flushes
  /\ written' = o.written
  /\ ret' = [op |-> op, x |-> x, y |-> y, res |-> o.res, val |-> o.val, out |-> o.out,
             unwr |-> o.unwr]
  /\ emitted' = emitted \o o.out
  /\ phase' = IF o.res = "Panic" THEN "panic" ELSE ph
  /\ ioFailed' = (ioFailed \/ o.res = "IoErr")
  /\ twin' = IF ~twin.same
             THEN twin
             ELSE IF t.res = o.res /\ t.val = o.val /\ t.stream = o.stream
                  THEN Twin(t, TRUE)
                  ELSE Twin(Result(NoTwin, "Ok", NoByte, <<>>), FALSE)
  /\ UNCHANGED <<variant, dict_size, memlimit, buf0, vec, idx>>

Live(v) == phase = "live" /\ variant = v

AccumLastOr ==
  /\ Live("accum")
  /\ \E lit \in Byte : Apply("last_or", lit, 0, "live",
                             accum_last_or(Self, lit),
                             accum_last_or(TwinSelf, lit))
  /\ UNCHANGED <<ref, refOk>>

AccumLastN ==
  /\ Live("accum")
  /\ \E dist \in 0..MaxDist : Apply("last_n", dist, 0, "live",
                                    accum_last_n(Self, dist),
                                    accum_last_n(TwinSelf, dist))
  /\ UNCHANGED <<ref, refOk>>

AccumAppendLiteral ==
  /\ Live("accum")
  /\ Len(emitted) < MaxEmit
  /\ Len(ref) < MaxEmit
  /\ \E lit \in Byte :
       LET o == accum_append_literal(Self, lit)
           t == accum_append_literal(TwinSelf, lit)
       IN
       /\ Apply("append_literal", lit, 0, "live", o, t)
       /\ refOk' = (refOk /\ o.res \notin {"MemErr", "IoErr"})
       /\ ref' = IF refOk' THEN Append(ref, lit) ELSE <<>>

AccumAppendLz ==
  /\ Live("accum")
  /\ \E n \in 0..MaxLzLen, dist \in 0..MaxDist :
       /\ Len(emitted) + n <= MaxEmit
       /\ Len(ref) + n <= MaxEmit
       /\ LET o == accum_append_lz(Self, n, dist)
              t == accum_append_lz(TwinSelf, n, dist)
              covered == 1 <= dist /\ dist <= Len(ref)
          IN /\ Apply("append_lz", n, dist, "live", o, t)
             /\ refOk' = (refOk /\ covered /\ o.res \notin {"MemErr", "IoErr"})
             /\ ref' = IF refOk' THEN RefLz(ref, n, dist) ELSE <<>>

AccumReset ==
  /\ Live("accum")
  /\ \E k \in WriteOutcomes(buf) : Apply("reset", 0, 0, "live",
                                         accum_reset(Self, k),
                                         accum_reset(TwinSelf, k))
  /\ ref' = <<>>
  /\ refOk' = FALSE

AccumFinish ==
  /\ Live("accum")
  /\ \E k \in WriteOutcomes(buf), f \in FlushOutcomes :
       Apply("finish", 0, 0, "finished",
             accum_finish(Self, k, f),
             accum_finish(TwinSelf, k, f))
  /\ UNCHANGED <<ref, refOk>>

AccumIntoOutput ==
  /\ Live("accum")
  /\ Apply("into_output", 0, 0, "output",
           accum_into_output(Self),
           accum_into_output(TwinSelf))
  /\ UNCHANGED <<ref, refOk>>

CircLastOr ==
  /\ Live("circ")
  /\ \E lit \in Byte : Apply("last_or", lit, 0, "live",
                             circ_last_or(Self, lit),
                             circ_last_or(TwinSelf, lit))
  /\ UNCHANGED <<ref, refOk>>

CircLastN ==
  /\ Live("circ")
  /\ \E dist \in 0..MaxDist : Apply("last_n", dist, 0, "live",
                                    circ_last_n(Self, dist),
                                    circ_last_n(TwinSelf, dist))
  /\ UNCHANGED <<ref, refOk>>

CircAppendLiteral ==
  /\ Live("circ")
  /\ Len(emitted) < MaxEmit
  /\ Len(ref) < MaxEmit
  /\ \E lit \in Byte, k \in WrapOutcomes :
       LET o == circ_append_literal(Self, lit, k)
           t == circ_append_literal(TwinSelf, lit, k)
       IN
       /\ Apply("append_literal", lit, 0, "live", o, t)
       /\ refOk' = (refOk /\ o.res \notin {"MemErr", "IoErr"})
       /\ ref' = IF refOk' THEN Append(ref, lit) ELSE <<>>

CircAppendLz ==
  /\ Live("circ")
  /\ \E n \in 0..MaxLzLen, dist \in 0..MaxDist :
       /\ Len(emitted) + n <= MaxEmit
       /\ Len(ref) + n <= MaxEmit
       /\ \E jk \in {<<0, 0 - 1>>} \cup ((1..n) \X (WrapOutcomes \ {0 - 1})) :
            LET o == circ_append_lz(Self, n, dist, jk[1], jk[2])
                t == circ_append_lz(TwinSelf, n, dist, jk[1], jk[2])
                covered == 1 <= dist /\ dist <= Len(ref) /\ dist <= dict_size
            IN /\ Apply("append_lz", n, dist, "live", o, t)
               /\ refOk' = (refOk /\ covered /\ o.res \notin {"MemErr", "IoErr"})
               /\ ref' = IF refOk' THEN RefLz(ref, n, dist) ELSE <<>>

CircFinish ==
  /\ Live("circ")
  /\ \E k \in WriteOutcomes(buf), f \in FlushOutcomes :
       Apply("finish", 0, 0, "finished",
             circ_finish(Self, k, f),
             circ_finish(TwinSelf, k, f))
  /\ UNCHANGED <<ref, refOk>>

CircIntoOutput ==
  /\ Live("circ")
  /\ Apply("into_output", 0, 0, "output",
           circ_into_output(Self),
           circ_into_output(TwinSelf))
  /\ UNCHANGED <<ref, refOk>>

\* from_stream: the fields as the constructors set them.
Init ==
  /\ variant \in {"accum", "circ"}
  /\ dict_size \in IF variant = "accum" THEN {0} ELSE 0..MaxDict
  /\ memlimit \in MemLimits
  /\ buf0 \in Backings
  /\ buf = buf0
  /\ len = 0
  /\ cursor = 0
  /\ stream = <<>>
  /\ flushes = 0
  /\ phase = "live"
  /\ written = {}
  /\ ret = [op |-> "from_stream", x |-> 0, y |-> 0, res |-> "Ok", val |-> NoByte, out |-> <<>>,
            unwr |-> FALSE]
  /\ emitted = <<>>
  /\ ref = <<>>
  /\ refOk = (buf0 = <<>>)
  /\ ioFailed = FALSE
  /\ vec = Vec2D_init(0, <<0, 0>>)
  /\ idx = Access("init", 0, 0, "Ok", 0, 0)
  /\ twin = Twin(Result([Self EXCEPT !.buf = <<>>], "Ok", NoByte, <<>>), TRUE)

Next ==
  \/ AccumLastOr
  \/ AccumLastN
  \/ AccumAppendLiteral
  \/ AccumAppendLz
  \/ AccumReset
  \/ AccumFinish
  \/ AccumIntoOutput
  \/ CircLastOr
  \/ CircLastN
  \/ CircAppendLiteral
  \/ CircAppendLz
  \/ CircFinish
  \/ CircIntoOutput

Spec == Init /\ [][Next]_vars

\* ------------------------------------------------------- Vec2D behaviours
\* A Vec2D from init, then any reads vec[row][col], writes vec[row][col] = v
\* and fills, up to the first panic.  No LZ buffer exists meanwhile.
lzvars == <<variant, dict_size, memlimit, buf, len, cursor, stream, flushes,
            phase, ret, buf0, emitted, ref, refOk, ioFailed, written, twin>>

Vec2DLive == variant = "none" /\ idx.res = "Ok"

Vec2DRead ==
  /\ Vec2DLive
  /\ \E row \in 0..MaxRows, col \in 0..MaxCols :
       LET pos == SliceAt(Vec2D_index(vec, row), col) IN
       idx' = IF pos < 0
              THEN Access("index", row, col, "Panic", pos, NoByte)
              ELSE Access("index", row, col, "Ok", pos, vec.data[pos + 1])
  /\ UNCHANGED <<vec, lzvars>>

Vec2DWrite ==
  /\ Vec2DLive
  /\ \E row \in 0..MaxRows, col \in 0..MaxCols, value \in Byte :
       LET pos == SliceAt(Vec2D_index_mut(vec, row), col) IN
       IF pos < 0
       THEN /\ idx' = Access("index_mut", row, col, "Panic", pos, value)
            /\ vec' = vec
       ELSE /\ idx' = Access("index_mut", row, col, "Ok", pos, value)
            /\ vec' = [vec EXCEPT !.data[pos + 1] = value]
  /\ UNCHANGED lzvars

Vec2DFill ==
  /\ Vec2DLive
  /\ \E value \in Byte :
       /\ vec' = Vec2D_fill(vec, value)
       /\ idx' = Access("fill", 0, 0, "Ok", 0, value)
  /\ UNCHANGED lzvars

Vec2DInit ==
  /\ variant = "none"
  /\ dict_size = 0 /\ memlimit = 0 /\ buf = <<>> /\ len = 0 /\ cursor = 0
  /\ stream = <<>> /\ flushes = 0 /\ phase = "live"
  /\ ret = [op |-> "none", x |-> 0, y |-> 0, res |-> "Ok", val |-> NoByte, out |-> <<>>,
            unwr |-> FALSE]
  /\ buf0 = <<>> /\ emitted = <<>> /\ ref = <<>> /\ refOk = FALSE
  /\ ioFailed = FALSE /\ written = {}
  /\ twin = Twin(Result(Self, "Ok", NoByte, <<>>), TRUE)
  /\ \E data \in Byte, rows \in 0..MaxRows, cols \in 0..MaxCols :
       /\ vec = Vec2D_init(data, <<rows, cols>>)
       /\ idx = Access("init", rows, cols, "Ok", 0, data)

Vec2DNext == Vec2DRead \/ Vec2DWrite \/ Vec2DFill

Vec2DSpec == Vec2DInit /\ [][Vec2DNext]_vars

\* ---------------------------------------------------------------- claims
\* The last call was a finish on a sink that has never failed.
Finished == ret.op = "finish" /\ ~ioFailed

\* C1: for either variant over an initially empty backing region, with a sink
\* that never fails and a memlimit that is never hit, after any sequence of
\* append_literal and append_lz calls with in-range distances followed by
\* finish, the sink holds exactly the bytes of the reference array.
C1_FinishMatchesReference ==
  (Finished /\ refOk) => (ret.res = "Ok" /\ phase = "finished" /\ stream = ref)

\* C1's case: a circular buffer whose ring has wrapped, finished with a
\* partial window pending.
C1_Witness ==
  /\ Finished /\ refOk /\ variant = "circ"
  /\ dict_size = 2 /\ Len(ref) = 3 /\ ref[1] # ref[2]
  /\ stream = ref

\* C2 (as claimed): for the accumulating variant over an initially empty
\* region, the backing region's length equals len and len never exceeds
\* memlimit, whatever append_literal, append_lz and reset calls were made.
C2_AccumWithinMemlimit ==
  (variant = "accum" /\ buf0 = <<>>) => (Len(buf) = len /\ len <= memlimit)

\* C3: for the accumulating variant, an append_literal made while
\* len < memlimit succeeds; made at len = memlimit it fails with the
\* memory-limit error and leaves len, the backing region and the sink as
\* they were.
C3_LiteralUpToMemlimit ==
  [][(variant = "accum" /\ ret'.op = "append_literal") =>
       /\ len < memlimit =>
            (ret'.res = "Ok" /\ len' = len + 1 /\ buf' = Append(buf, ret'.x))
       /\ len = memlimit =>
            (ret'.res = "MemErr" /\ len' = len /\ buf' = buf
             /\ stream' = stream /\ flushes' = flushes)]_vars

\* C3's case: the literal refused at len = memlimit, after earlier ones went in.
C3_Witness ==
  /\ variant = "accum" /\ ret.op = "append_literal" /\ ret.res = "MemErr"
  /\ len = memlimit /\ len = 2 /\ Len(buf) = 2

\* C4: for the circular variant (dict_size >= 1, memlimit >= dict_size, empty
\* initial backing, non-failing sink): once dict_size bytes are in, the sink
\* holds exactly those and cursor is 0; with dict_size + k bytes in
\* (0 < k < dict_size) the sink holds the first dict_size, and finish adds
\* exactly the trailing k, so the sink ends up holding the whole sequence.
C4_WindowThenRemainder ==
  (variant = "circ" /\ refOk /\ ~ioFailed /\ dict_size >= 1 /\ memlimit >= dict_size) =>
    /\ (phase = "live" /\ Len(ref) = dict_size) => (stream = ref /\ cursor = 0)
    /\ (phase = "live" /\ dict_size < Len(ref) /\ Len(ref) < 2 * dict_size) =>
         (stream = SubSeq(ref, 1, dict_size) /\ cursor = Len(ref) - dict_size)
    /\ (ret.op = "finish" /\ dict_size < Len(ref) /\ Len(ref) < 2 * dict_size) =>
         (ret.res = "Ok" /\ stream = ref)

\* C4's case: dict_size + 1 literals into a window of 2, then finish.
C4_Witness ==
  /\ variant = "circ" /\ refOk /\ Finished /\ ret.res = "Ok"
  /\ dict_size = 2 /\ memlimit = 2 /\ Len(ref) = 3
  /\ stream = ref /\ cursor = 1

\* The last d elements of a sequence, and a sequence that repeats another.
Suffix(a, d) == SubSeq(a, Len(a) - d + 1, Len(a))
Repeats(out, pattern, n) ==
  /\ Len(out) = n
  /\ \A i \in 0..(n - 1) : out[i + 1] = pattern[(i % Len(pattern)) + 1]

\* This step is a successful overlapping append_lz(n, dist), 1 <= dist < n,
\* made when at least dist bytes had been emitted.
OverlappingCopy ==
  /\ ret'.op = "append_lz" /\ ret'.res = "Ok"
  /\ 1 <= ret'.y /\ ret'.y < ret'.x /\ ret'.y <= Len(emitted)

LastNAfterLiteral ==
  /\ ret.op = "append_literal" /\ ret.res = "Ok"
  /\ ret'.op = "last_n" /\ ret'.x = 1

DistArg == IF ret'.op = "last_n" THEN ret'.x ELSE ret'.y

\* C7 (as claimed): for both variants, last_n(d) and append_lz(n, d) with
\* d > len fail with the distance error and leave len, cursor, the backing
\* region and the sink as they were.
C7_BeyondOutputFails ==
  [][(ret'.op \in {"last_n", "append_lz"} /\ DistArg > len) =>
       (ret'.res = "DistErr" /\ len' = len /\ cursor' = cursor /\ buf' = buf
        /\ stream' = stream /\ emitted' = emitted)]_vars

\* C8: for the circular variant, last_n(d) and append_lz(n, d) with
\* d > dict_size fail with the distance error in every reachable state, also
\* once more than dict_size bytes have been emitted.
C8_BeyondWindowFails ==
  (variant = "circ" /\ ret.op \in {"last_n", "append_lz"}
   /\ (IF ret.op = "last_n" THEN ret.x ELSE ret.y) > dict_size) =>
    ret.res = "DistErr"

\* C8's case: a distance inside the output but outside the window, after the
\* ring has wrapped.
C8_Witness ==
  /\ variant = "circ" /\ dict_size = 1 /\ len = 2 /\ Len(stream) = 2
  /\ ret.op = "append_lz" /\ ret.x = 1 /\ ret.y = 2 /\ ret.res = "DistErr"

\* The bytes resident in the buffer and not yet written to the sink.
Resident == IF variant = "accum" THEN buf ELSE SubSeq(buf, 1, cursor)

\* C9 (as claimed, for a buffer that has emitted at least one byte): a finish
\* that returns success has written the resident bytes to the sink and has
\* then called the sink's flush, whatever cursor is.
C9_FinishWritesAndFlushes ==
  (ret.op = "finish" /\ ret.res = "Ok" /\ len > 0) =>
    (Len(stream) >= Len(Resident) /\ Suffix(stream, Len(Resident)) = Resident
     /\ flushes = 1)

\* What the sink would hold after a finish from this state that the sink accepts.
FinishStream ==
  IF variant = "accum"
  THEN accum_finish(Self, 0 - 1, TRUE).stream
  ELSE circ_finish(Self, 0 - 1, TRUE).stream

\* C10: for both variants, into_output writes nothing and flushes nothing: the
\* sink it returns holds what it held before, which is strictly less than
\* finish would have left there whenever resident unflushed bytes exist.
C10_IntoOutputWritesNothing ==
  [][ret'.op = "into_output" =>
       (stream' = stream /\ flushes' = flushes /\ phase' = "output"
        /\ (Resident # <<>> => Len(stream') < Len(FinishStream)))]_vars

\* C10's case: into_output on a ring that flushed one window and holds one
\* more byte.
C10_Witness ==
  /\ variant = "circ" /\ dict_size = 2 /\ ret.op = "into_output" /\ phase = "output"
  /\ cursor = 1 /\ len = 3 /\ Len(stream) = 2 /\ stream = SubSeq(emitted, 1, 2)

\* C11: in the circular variant, over a region handed in empty and with a sink
\* that has not failed, no call that the buffer accepts makes last_or, last_n
\* or append_lz return or copy the byte of a ring slot that no append of this
\* buffer has stored to.
C11_ReadsOnlyWrittenSlots ==
  (variant = "circ" /\ buf0 = <<>> /\ ~ioFailed
     /\ ret.op \in {"last_or", "last_n", "append_lz"} /\ ret.res = "Ok")
    => ~ret.unwr
C13_LastOrNeverFails ==
  (ret.op = "last_or" /\ buf0 = <<>> /\ ~ioFailed)
    => /\ ret.res = "Ok"
       /\ ret.val = IF len = 0 THEN ret.x ELSE emitted[Len(emitted)]
\* C14: on a Vec2D from init(v, (rows, cols)), vec[r][c] (read or write)
\* succeeds exactly when r < rows and c < cols, and then addresses the flat
\* position r * cols + c and no other; with r >= rows or c >= cols it panics
\* and changes nothing, also when r * cols + c lies inside the data.
C14_IndexExactlyInRange ==
  [][(idx' # idx /\ idx'.op \in {"index", "index_mut"}) =>
       LET r == idx'.row
           c == idx'.col
           inRange == r < vec.rows /\ c < vec.cols
           at == r * vec.cols + c
       IN /\ (idx'.res = "Ok") <=> inRange
          /\ inRange =>
               /\ idx'.pos = at
               /\ idx'.op = "index" => (idx'.val = vec.data[at + 1] /\ vec' = vec)
               /\ idx'.op = "index_mut" => vec' = [vec EXCEPT !.data[at + 1] = idx'.val]
          /\ ~inRange => (idx'.res = "Panic" /\ vec' = vec)]_vars

\* A column one past the row, at a flat position that exists (the start of
\* the next row), has panicked.
C14_Witness ==
  /\ vec.rows = 2 /\ vec.cols = 2
  /\ idx.op = "index" /\ idx.row = 0 /\ idx.col = 2 /\ idx.res = "Panic"
\* C15: in the circular variant with dict_size >= 1, over a region handed in
\* empty and with a sink that does not fail, in every state before finish the
\* sink holds exactly the first dict_size * (len \div dict_size) emitted bytes,
\* in order, and cursor = len mod dict_size.
C15_SinkHoldsWholeRings ==
  (variant = "circ" /\ buf0 = <<>> /\ ~ioFailed /\ dict_size >= 1 /\ phase = "live")
    => /\ len = Len(emitted)
       /\ stream = SubSeq(emitted, 1, dict_size * (len \div dict_size))
       /\ cursor = len % dict_size

\* A two-byte back-reference has wrapped the ring at its first byte.
C15_Witness ==
  /\ variant = "circ" /\ buf0 = <<>> /\ ~ioFailed /\ dict_size = 2 /\ phase = "live"
  /\ ret.op = "append_lz" /\ ret.res = "Ok" /\ Len(ret.out) = 2
  /\ len = 3 /\ Len(stream) = 2 /\ cursor = 1
C17_LimitBelowWindow ==
  [][(variant = "circ" /\ buf0 = <<>> /\ memlimit < dict_size) =>
       LET room == memlimit - len IN
       /\ ret'.op = "append_literal" =>
            IF room >= 1
            THEN ret'.res = "Ok" /\ len' = len + 1 /\ buf' = Append(buf, ret'.x)
            ELSE ret'.res = "MemErr" /\ UNCHANGED <<cursor, len, buf, stream>>
       /\ (ret'.op = "append_lz" /\ ret'.res # "DistErr") =>
            IF ret'.x <= room
            THEN ret'.res = "Ok" /\ len' = len + ret'.x /\ buf' = buf \o ret'.out
            ELSE /\ ret'.res = "MemErr"
                 /\ Len(ret'.out) = room
                 /\ len' = memlimit /\ cursor' = memlimit
                 /\ buf' = buf \o ret'.out
                 /\ stream' = stream]_vars

\* A two-byte copy has hit the limit at its second byte.
C17_Witness ==
  /\ variant = "circ" /\ buf0 = <<>> /\ memlimit = 1 /\ dict_size = 2
  /\ ret.op = "append_lz" /\ ret.res = "MemErr" /\ ret.x = 2
  /\ Len(ret.out) = 1 /\ len = 1 /\ buf = ret.out
\* C18: in the accumulating variant, with a sink that has not failed, a
\* successful reset writes the resident bytes to the sink in order, empties the
\* region and sets len to 0; right after it last_or returns its default and
\* last_n(d) and append_lz(n, d) fail for every d >= 1; and what the sink holds
\* after a reset, and after a later finish, is everything emitted so far, no
\* byte added, duplicated or dropped.
C18_ResetKeepsOutputWhole ==
  [][(variant = "accum" /\ ~ioFailed' /\ ret'.res = "Ok" /\ ret'.op \in {"reset", "finish"}) =>
       /\ stream' = stream \o buf
       /\ stream' = emitted'
       /\ ret'.op = "reset" =>
            LET after == [Self EXCEPT !.buf = buf', !.len = len', !.stream = stream'] IN
            /\ buf' = <<>> /\ len' = 0
            /\ \A b \in Byte : accum_last_or(after, b).val = b
            /\ \A d \in 1..MaxDist : accum_last_n(after, d).res = "DistErr"
            /\ \A d \in 1..MaxDist, n \in 0..MaxLzLen :
                 accum_append_lz(after, n, d).res = "DistErr"]_vars
\* C19: in the accumulating variant over a region handed in empty,
\* last_n(dist) and append_lz(len, dist) return a byte, copy bytes or return
\* an error for every dist >= 0 and every len >= 0; neither ever aborts on an
\* index outside the region.
C19_AccumNeverAborts ==
  (variant = "accum" /\ buf0 = <<>> /\ ret.op \in {"last_n", "append_lz"}) => ret.res # "Panic"
\* C20: in both variants, as long as no sink write has failed, every call
\* returns what it returns on a buffer of the same dict_size and memlimit
\* built over an empty region and handed the same calls, and leaves the same
\* bytes in the sink: the contents of the region handed in make no difference.
C20_IndependentOfBacking == ~ioFailed => twin.same
====
